---- MODULE Spec2Model ----
(***************************************************************************)
(* Tutorial03_Texturing (src/Tutorial03_Texturing.hpp): a sample that sets *)
(* up a pipeline state, a cube vertex/index buffer, a uniform buffer and a *)
(* texture, recomputes twelve world-view-projection matrices in Update and *)
(* issues one indexed draw per cube in Render.                             *)
(*                                                                         *)
(* Numbers.  float is modelled as fixed point with three decimals          *)
(* (One = 1.0).  Angles are counted in steps of 6 degrees (PI_F = 30       *)
(* steps) and CurrTime in steps of PI/3 seconds, so that every angle the   *)
(* code forms (T*1.0, T*-0.5, T*0.3, T*0.5, T*0.3+PI, -0.1*PI) is a whole  *)
(* number of angle steps.                                                  *)
(*                                                                         *)
(* Matrices.  float4x4 follows the engine's BasicMath: row-major storage,  *)
(* a point is a row vector multiplied from the left (v * M), Translation   *)
(* keeps the offset in the fourth row, and A * B is the ordinary matrix    *)
(* product.  Line 450 relies on it: the model transform is the leftmost    *)
(* and the projection the rightmost factor of the product.                 *)
(***************************************************************************)
EXTENDS Integers, Sequences, FiniteSets, TLC

\* ------------------------------------------------------------------ bounds
\* CurrTime ranges over 0..MaxTime (in steps of PI/3 seconds)
MaxTime == 3
\* ElapsedTime ranges over 0..MaxElapsed
MaxElapsed == 1

Times == 0 .. MaxTime
Elapsed == 0 .. MaxElapsed

\* ------------------------------------------------------- fixed-point floats
\* 1.0f
One == 1000
Half == One \div 2

\* round-to-nearest rescaling of a product of two fixed-point numbers
Rescale(x) == (x + Half) \div One

\* sin of k*6 degrees, k = 0..59, times One
SinTable ==
  <<    0,  105,  208,  309,  407,  500,  588,  669,  743,  809,
      866,  914,  951,  978,  995, 1000,  995,  978,  951,  914,
      866,  809,  743,  669,  588,  500,  407,  309,  208,  105,
        0, -105, -208, -309, -407, -500, -588, -669, -743, -809,
     -866, -914, -951, -978, -995,-1000, -995, -978, -951, -914,
     -866, -809, -743, -669, -588, -500, -407, -309, -208, -105 >>

\* PI_F in angle steps
PI_F == 30
FullTurn == 2 * PI_F

Sin(a) == SinTable[(a % FullTurn) + 1]
Cos(a) == SinTable[((a + (PI_F \div 2)) % FullTurn) + 1]

\* seconds (steps of PI/3) times a speed in tenths gives angle steps:
\* (T * PI/3) * (s/10) rad = T * s * 6 degrees
AngleOf(CurrTime, speedTenths) == CurrTime * speedTenths

\* ------------------------------------------------------------- float4x4
\* default-constructed float4x4 member (lines 31-45)
ZeroMatrix ==
  << <<0, 0, 0, 0>>,
     <<0, 0, 0, 0>>,
     <<0, 0, 0, 0>>,
     <<0, 0, 0, 0>> >>

Identity ==
  << <<One, 0, 0, 0>>,
     <<0, One, 0, 0>>,
     <<0, 0, One, 0>>,
     <<0, 0, 0, One>> >>

\* row vector times matrix: the image of the point v under M
VecMul(v, M) ==
  << Rescale(v[1] * M[1][1] + v[2] * M[2][1] + v[3] * M[3][1] + v[4] * M[4][1]),
     Rescale(v[1] * M[1][2] + v[2] * M[2][2] + v[3] * M[3][2] + v[4] * M[4][2]),
     Rescale(v[1] * M[1][3] + v[2] * M[2][3] + v[3] * M[3][3] + v[4] * M[4][3]),
     Rescale(v[1] * M[1][4] + v[2] * M[2][4] + v[3] * M[3][4] + v[4] * M[4][4]) >>

\* float4x4::operator* : (A * B)[i][j] = sum_k A[i][k] * B[k][j]
Mul(A, B) ==
  << VecMul(A[1], B), VecMul(A[2], B), VecMul(A[3], B), VecMul(A[4], B) >>

\* the point (x, y, z) as a homogeneous row vector
Point(x, y, z) == <<x, y, z, One>>

\* float4x4::Translation(x, y, z)
Translation(x, y, z) ==
  << <<One, 0, 0, 0>>,
     <<0, One, 0, 0>>,
     <<0, 0, One, 0>>,
     <<x, y, z, One>> >>

\* float4x4::Scale(x, y, z)
Scale(x, y, z) ==
  << <<x, 0, 0, 0>>,
     <<0, y, 0, 0>>,
     <<0, 0, z, 0>>,
     <<0, 0, 0, One>> >>

\* float4x4::RotationX(angle)
RotationX(a) ==
  << <<One, 0, 0, 0>>,
     <<0, Cos(a), Sin(a), 0>>,
     <<0, -Sin(a), Cos(a), 0>>,
     <<0, 0, 0, One>> >>

\* float4x4::RotationY(angle)
RotationY(a) ==
  << <<Cos(a), 0, -Sin(a), 0>>,
     <<0, One, 0, 0>>,
     <<Sin(a), 0, Cos(a), 0>>,
     <<0, 0, 0, One>> >>

\* --------------------------------------------------------------- Update
\* -PI_F * 0.1f (lines 378, 380)
Tilt == (-PI_F) \div 10

\* line 378
Cube1ModelTransform(CurrTime) ==
  Mul(RotationY(AngleOf(CurrTime, 10)), RotationX(Tilt))

\* the operands of line 394 exchanged: rotate in place, then place
Cube2ModelTransform_RotateFirst(CurrTime) ==
  Mul(Cube1ModelTransform(CurrTime), Translation(3 * One, 0, 0))

\* lines 388, 394
Cube2ModelTransform(CurrTime) ==
  Mul(Translation(3 * One, 0, 0), Cube1ModelTransform(CurrTime))

\* lines 389, 395
Cube3ModelTransform(CurrTime) ==
  Mul(Translation(-3 * One, 0, 0), Cube1ModelTransform(CurrTime))

\* lines 390, 396
Cube4ModelTransform(CurrTime) ==
  Mul(Translation(3 * One, -3 * One, 0), Cube1ModelTransform(CurrTime))

\* lines 391, 397
Cube5ModelTransform(CurrTime) ==
  Mul(Translation(-3 * One, -4 * One, 0), Cube1ModelTransform(CurrTime))

\* line 380: the value Cube8ModelTransform is initialised with
Cube8TiltedRotation(CurrTime) ==
  Mul(RotationY(AngleOf(CurrTime, -5)), RotationX(Tilt))

\* line 401
Cube8ModelTransform(CurrTime) ==
  Mul(Translation(0, 5 * One, 0), Cube8TiltedRotation(CurrTime))

\* lines 404-406
CubeLineModelTransform(CurrTime) ==
  Mul(Translation(0, One, 0),
      Mul(Scale(One \div 10, 2 * One, One \div 10), Cube1ModelTransform(CurrTime)))

\* lines 409-411
CubeLine23ModelTransform(CurrTime) ==
  Mul(Translation(0, 0, 0),
      Mul(Scale(4 * One, One \div 10, One \div 10), Cube1ModelTransform(CurrTime)))

\* lines 414-416
CubeLine24ModelTransform(CurrTime) ==
  Mul(Translation(30 * One, -One, 0),
      Mul(Scale(One \div 10, 2 * One, One \div 10), Cube1ModelTransform(CurrTime)))

\* lines 419-421
CubeLine35ModelTransform(CurrTime) ==
  Mul(Translation(-30 * One, -One, 0),
      Mul(Scale(One \div 10, 2 * One, One \div 10), Cube1ModelTransform(CurrTime)))

\* line 424 (1.0f)
orbitRadius == 1000
\* line 425 (0.3f, in tenths)
orbitSpeed == 3
\* line 428 (0.5f, in tenths)
localRotationSpeed == 5

\* lines 429, 430
Cube6LocalRotation(CurrTime) == RotationY(AngleOf(CurrTime, localRotationSpeed))
Cube7LocalRotation(CurrTime) == RotationY(AngleOf(CurrTime, localRotationSpeed))

\* line 433
Cube6OrbitTransform(CurrTime) ==
  Mul(RotationY(AngleOf(CurrTime, orbitSpeed)), Translation(orbitRadius, 0, 0))

\* line 434
Cube6ModelTransform(CurrTime) ==
  Mul(Mul(Mul(Cube5ModelTransform(CurrTime), Cube6OrbitTransform(CurrTime)),
          Cube6LocalRotation(CurrTime)),
      Cube4ModelTransform(CurrTime))

\* line 437
Cube7OrbitTransform(CurrTime) ==
  Mul(RotationY(AngleOf(CurrTime, orbitSpeed) + PI_F), Translation(orbitRadius, 0, 0))

\* line 438
Cube7ModelTransform(CurrTime) ==
  Mul(Mul(Mul(Cube5ModelTransform(CurrTime), Cube7OrbitTransform(CurrTime)),
          Cube7LocalRotation(CurrTime)),
      Cube4ModelTransform(CurrTime))

\* line 441
View == Translation(0, One, 30 * One)

\* line 444: GetSurfacePretransformMatrix for an untransformed surface
SrfPreTransform == Identity

\* line 447: GetAdjustedProjectionMatrix(PI_F / 4, 0.1, 100) for a square
\* surface: 1/tan(PI/8) = 2.414, zFar/(zFar-zNear) = 1.001,
\* -zNear*zFar/(zFar-zNear) = -0.100
Proj ==
  << <<2414, 0, 0, 0>>,
     <<0, 2414, 0, 0>>,
     <<0, 0, 1001, One>>,
     <<0, 0, -100, 0>> >>

\* the product written on each of the lines 450-461 (left-associative)
WorldViewProj(ModelTransform) ==
  Mul(Mul(Mul(ModelTransform, View), SrfPreTransform), Proj)

\* the members float4x4 m_WorldViewProjMatrix, m_WorldViewProjMatrix1 ..
\* m_WorldViewProjMatrix14 (lines 31-45); 0 is the unnumbered one
MatrixIds == 0 .. 14

\* the assignment to m_WorldViewProjMatrix12 forgotten
UpdateWrites_Eleven == 1 .. 11

\* the members Update assigns (left-hand sides of lines 450-461)
UpdateWrites == 1 .. 12

\* the model transform on the right-hand side of the assignment to
\* m_WorldViewProjMatrix<i> (lines 450-461)
ModelTransformOf(i, CurrTime) ==
  CASE i = 1  -> Cube1ModelTransform(CurrTime)
    [] i = 2  -> Cube2ModelTransform(CurrTime)
    [] i = 3  -> Cube3ModelTransform(CurrTime)
    [] i = 4  -> Cube4ModelTransform(CurrTime)
    [] i = 5  -> Cube5ModelTransform(CurrTime)
    [] i = 6  -> Cube6ModelTransform(CurrTime)
    [] i = 7  -> Cube7ModelTransform(CurrTime)
    [] i = 8  -> Cube8ModelTransform(CurrTime)
    [] i = 9  -> CubeLineModelTransform(CurrTime)
    [] i = 10 -> CubeLine23ModelTransform(CurrTime)
    [] i = 11 -> CubeLine24ModelTransform(CurrTime)
    [] i = 12 -> CubeLine35ModelTransform(CurrTime)

\* the animation advanced by ElapsedTime on top of CurrTime
UpdateMatrices_Elapsed(CurrTime, ElapsedTime, old) ==
  [i \in MatrixIds |->
      IF i \in UpdateWrites
        THEN WorldViewProj(ModelTransformOf(i, CurrTime + ElapsedTime))
        ELSE old[i]]

\* the matrix members after Update(CurrTime, ElapsedTime), given their
\* values before the call
UpdateMatrices(CurrTime, ElapsedTime, old) ==
  [i \in MatrixIds |->
      IF i \in UpdateWrites
        THEN WorldViewProj(ModelTransformOf(i, CurrTime))
        ELSE old[i]]

\* ------------------------------------------------------------- geometry
\* CubeVerts (lines 224-255): position (x, y, z) and uv (u, v) of each vertex
CubeVerts ==
  << <<-1, -1, -1, 0, 1>>, <<-1,  1, -1, 0, 0>>, << 1,  1, -1, 1, 0>>, << 1, -1, -1, 1, 1>>,
     <<-1, -1, -1, 0, 1>>, <<-1, -1,  1, 0, 0>>, << 1, -1,  1, 1, 0>>, << 1, -1, -1, 1, 1>>,
     << 1, -1, -1, 0, 1>>, << 1, -1,  1, 1, 1>>, << 1,  1,  1, 1, 0>>, << 1,  1, -1, 0, 0>>,
     << 1,  1, -1, 0, 1>>, << 1,  1,  1, 0, 0>>, <<-1,  1,  1, 1, 0>>, <<-1,  1, -1, 1, 1>>,
     <<-1,  1, -1, 1, 0>>, <<-1,  1,  1, 0, 0>>, <<-1, -1,  1, 0, 1>>, <<-1, -1, -1, 1, 1>>,
     <<-1, -1,  1, 1, 1>>, << 1, -1,  1, 0, 1>>, << 1,  1,  1, 0, 0>>, <<-1,  1,  1, 1, 0>> >>

\* the last index one past the last vertex
Indices_Typo ==
  <<  2,  0,  1,    2,  3,  0,
      4,  6,  5,    4,  7,  6,
      8, 10,  9,    8, 11, 10,
     12, 14, 13,   12, 15, 14,
     16, 18, 17,   16, 19, 18,
     20, 21, 22,   20, 22, 24 >>

\* Indices (lines 271-279)
Indices ==
  <<  2,  0,  1,    2,  3,  0,
      4,  6,  5,    4,  7,  6,
      8, 10,  9,    8, 11, 10,
     12, 14, 13,   12, 15, 14,
     16, 18, 17,   16, 19, 18,
     20, 21, 22,   20, 22, 23 >>

\* DrawAttrs.NumIndices (line 353)
NumIndices == 36

\* the last DrawCube call forgotten
RenderList_Short == <<1, 2, 3, 4, 5, 6, 7, 8, 9, 10, 11>>

\* the matrices of the cubes 6 and 7 passed in the wrong order
RenderList_Swapped == <<1, 2, 3, 4, 5, 7, 6, 8, 9, 10, 11, 12>>

\* the last DrawCube call passed the member m_WorldViewProjMatrix13
RenderList_Unassigned == <<1, 2, 3, 4, 5, 6, 7, 8, 9, 10, 11, 13>>

\* the matrix members passed to DrawCube, in call order (lines 359-370)
RenderList == <<1, 2, 3, 4, 5, 6, 7, 8, 9, 10, 11, 12>>

\* ------------------------------------------------------------------ state
Null == "null"

\* CreateIndexBuffer called before CreateVertexBuffer
InitOrder_IndexFirst ==
  << "CreateVS", "CreateUniformBuffer", "CreatePS", "CreatePSO",
     "SetConstants", "CreateSRB",
     "CreateIndexBuffer",
     "CreateVertexBuffer",
     "CreateTexture", "GetDefaultView", "SetTexture" >>

\* the uniform buffer created only after 'Constants' was bound
InitOrder_BindEarly ==
  << "CreateVS", "CreatePS", "CreatePSO",
     "SetConstants", "CreateUniformBuffer", "CreateSRB",
     "CreateVertexBuffer",
     "CreateIndexBuffer",
     "CreateTexture", "GetDefaultView", "SetTexture" >>

\* the engine calls of Initialize in program order (lines 311-314, 122, 125,
\* 135, 184, 189, 193, 265, 290, 298, 300, 303)
InitOrder ==
  << "CreateVS", "CreateUniformBuffer", "CreatePS", "CreatePSO",
     "SetConstants", "CreateSRB",
     "CreateVertexBuffer",
     "CreateIndexBuffer",
     "CreateTexture", "GetDefaultView", "SetTexture" >>

\* the position after the engine call at position p
After(p) ==
  LET k == CHOOSE i \in 1 .. Len(InitOrder) : InitOrder[i] = p
  IN  IF k = Len(InitOrder) THEN "Ready" ELSE InitOrder[k + 1]

VARIABLES
  pc,                  \* position of the single thread
  engineMayFail,       \* whether the engine's creation calls can return null
  m_pPSO, m_CubeVertexBuffer, m_CubeIndexBuffer,
  m_VSConstants, m_TextureSRV, m_SRB,          \* lines 25-30
  m_WorldViewProjMatrix,                       \* lines 31-45, by MatrixIds
  pVS, pPS, Tex,       \* locals of CreatePipelineState and LoadTexture
  gpu,                 \* contents of the engine objects the handles refer to
  cube,                \* index in RenderList of the DrawCube call in progress
  drawCalls,           \* DrawIndexed calls issued by the Render in progress / last
  writes,              \* writes to the uniform buffer since the last DrawIndexed
  prevFrame,           \* DrawIndexed calls of the preceding Render, if the call
                       \* before the Render in progress / last was a Render too
  setupLog,            \* setup functions entered so far, in order
  lastCall,            \* last of Update / Render that was called
  updated,             \* Update has been called at least once
  currTime,            \* CurrTime argument of the latest Update
  elapsedTime          \* ElapsedTime argument of the latest Update

handles == <<m_pPSO, m_CubeVertexBuffer, m_CubeIndexBuffer, m_VSConstants, m_TextureSRV, m_SRB>>
locals == <<pVS, pPS, Tex>>
frame == <<cube, drawCalls, writes, prevFrame>>
clock == <<updated, currTime, elapsedTime>>
vars == <<pc, engineMayFail, handles, m_WorldViewProjMatrix, locals, gpu,
          frame, setupLog, lastCall, clock>>

\* the state after construction: null handles, default matrices
InitState ==
  /\ pc = "Constructed"
  /\ m_pPSO = Null /\ m_CubeVertexBuffer = Null /\ m_CubeIndexBuffer = Null
  /\ m_VSConstants = Null /\ m_TextureSRV = Null /\ m_SRB = Null
  /\ m_WorldViewProjMatrix = [i \in MatrixIds |-> ZeroMatrix]
  /\ pVS = Null /\ pPS = Null /\ Tex = Null
  /\ gpu = [ vb |-> << >>, ib |-> << >>,
             cb |-> ZeroMatrix, cbMaps |-> 0,
             psoConstants |-> Null,
             srbConstants |-> Null, srbTexture |-> Null,
             boundVB |-> Null, boundIB |-> Null, boundPSO |-> Null,
             committedSRB |-> Null ]
  /\ cube = 0 /\ drawCalls = << >> /\ writes = 0 /\ prevFrame = << >>
  /\ setupLog = << >>
  /\ lastCall = "None"
  /\ updated = FALSE /\ currTime = 0 /\ elapsedTime = 0

Init == InitState /\ engineMayFail = FALSE

InitFail == InitState /\ engineMayFail = TRUE

\* what a creation call of the engine can hand back for the object h
Outcome(h) == IF engineMayFail THEN {h, Null} ELSE {h}

\* a null check that leaves Initialize early
Go_EarlyReturn(p, nullDeref) == IF nullDeref THEN {"Ready"} ELSE {After(p)}

\* where the thread goes after the call at position p: a call through a null
\* pointer is undefined behaviour, which either ends the process or goes on
Go(p, nullDeref) == IF nullDeref THEN {"Crashed", After(p)} ELSE {After(p)}

\* ------------------------------------------------------------ Initialize
\* line 309
Initialize ==
  /\ pc = "Constructed"
  /\ pc' = InitOrder[1]
  /\ UNCHANGED <<engineMayFail, handles, m_WorldViewProjMatrix, locals, gpu,
                 frame, setupLog, lastCall, clock>>

\* line 122 (first engine call of CreatePipelineState)
CreateVS ==
  /\ pc = "CreateVS"
  /\ pVS' \in Outcome("VS")
  /\ setupLog' = Append(setupLog, "CreatePipelineState")
  /\ pc' = After("CreateVS")
  /\ UNCHANGED <<engineMayFail, handles, m_WorldViewProjMatrix, pPS, Tex, gpu,
                 frame, lastCall, clock>>

\* line 125
CreateUniformBuffer ==
  /\ pc = "CreateUniformBuffer"
  /\ m_VSConstants' \in Outcome("VSConstants")
  /\ pc' = After("CreateUniformBuffer")
  /\ UNCHANGED <<engineMayFail, m_pPSO, m_CubeVertexBuffer, m_CubeIndexBuffer,
                 m_TextureSRV, m_SRB, m_WorldViewProjMatrix, locals, gpu,
                 frame, setupLog, lastCall, clock>>

\* line 135
CreatePS ==
  /\ pc = "CreatePS"
  /\ pPS' \in Outcome("PS")
  /\ pc' = After("CreatePS")
  /\ UNCHANGED <<engineMayFail, handles, m_WorldViewProjMatrix, pVS, Tex, gpu,
                 frame, setupLog, lastCall, clock>>

\* line 184: the engine creates no graphics pipeline without both shaders
CreatePSO ==
  /\ pc = "CreatePSO"
  /\ m_pPSO' \in IF pVS = Null \/ pPS = Null THEN {Null} ELSE Outcome("PSO")
  /\ pc' = After("CreatePSO")
  /\ UNCHANGED <<engineMayFail, m_CubeVertexBuffer, m_CubeIndexBuffer,
                 m_VSConstants, m_TextureSRV, m_SRB, m_WorldViewProjMatrix,
                 locals, gpu, frame, setupLog, lastCall, clock>>

\* line 189: m_pPSO->GetStaticVariableByName(...)->Set(m_VSConstants)
SetConstants ==
  /\ pc = "SetConstants"
  /\ \E var \in Outcome("Constants") :
       LET nullDeref == m_pPSO = Null \/ var = Null
       IN  /\ pc' \in Go("SetConstants", nullDeref)
           /\ gpu' = IF nullDeref THEN gpu
                     ELSE [gpu EXCEPT !.psoConstants = m_VSConstants]
  /\ UNCHANGED <<engineMayFail, handles, m_WorldViewProjMatrix, locals,
                 frame, setupLog, lastCall, clock>>

\* line 193: m_pPSO->CreateShaderResourceBinding(&m_SRB, true); the static
\* resources of the pipeline state are copied into the new binding; pVS and
\* pPS are released when CreatePipelineState returns
CreateSRB ==
  /\ pc = "CreateSRB"
  /\ LET nullDeref == m_pPSO = Null
     IN  /\ pc' \in Go("CreateSRB", nullDeref)
         /\ m_SRB' \in IF nullDeref THEN {m_SRB} ELSE Outcome("SRB")
         /\ gpu' = IF nullDeref \/ m_SRB' = Null THEN gpu
                   ELSE [gpu EXCEPT !.srbConstants = gpu.psoConstants]
  /\ pVS' = Null /\ pPS' = Null
  /\ UNCHANGED <<engineMayFail, m_pPSO, m_CubeVertexBuffer, m_CubeIndexBuffer,
                 m_VSConstants, m_TextureSRV, m_WorldViewProjMatrix, Tex,
                 frame, setupLog, lastCall, clock>>

\* lines 257-265
CreateVertexBuffer ==
  /\ pc = "CreateVertexBuffer"
  /\ m_CubeVertexBuffer' \in Outcome("CubeVertexBuffer")
  /\ gpu' = IF m_CubeVertexBuffer' = Null THEN gpu
            ELSE [gpu EXCEPT !.vb = CubeVerts]
  /\ setupLog' = Append(setupLog, "CreateVertexBuffer")
  /\ pc' = After("CreateVertexBuffer")
  /\ UNCHANGED <<engineMayFail, m_pPSO, m_CubeIndexBuffer, m_VSConstants,
                 m_TextureSRV, m_SRB, m_WorldViewProjMatrix, locals,
                 frame, lastCall, clock>>

\* lines 282-290
CreateIndexBuffer ==
  /\ pc = "CreateIndexBuffer"
  /\ m_CubeIndexBuffer' \in Outcome("CubeIndexBuffer")
  /\ gpu' = IF m_CubeIndexBuffer' = Null THEN gpu
            ELSE [gpu EXCEPT !.ib = Indices]
  /\ setupLog' = Append(setupLog, "CreateIndexBuffer")
  /\ pc' = After("CreateIndexBuffer")
  /\ UNCHANGED <<engineMayFail, m_pPSO, m_CubeVertexBuffer, m_VSConstants,
                 m_TextureSRV, m_SRB, m_WorldViewProjMatrix, locals,
                 frame, lastCall, clock>>

\* line 298 (first engine call of LoadTexture)
CreateTexture ==
  /\ pc = "CreateTexture"
  /\ Tex' \in Outcome("Tex")
  /\ setupLog' = Append(setupLog, "LoadTexture")
  /\ pc' = After("CreateTexture")
  /\ UNCHANGED <<engineMayFail, handles, m_WorldViewProjMatrix, pVS, pPS, gpu,
                 frame, lastCall, clock>>

\* line 300: Tex->GetDefaultView(TEXTURE_VIEW_SHADER_RESOURCE)
GetDefaultView ==
  /\ pc = "GetDefaultView"
  /\ LET nullDeref == Tex = Null
     IN  /\ pc' \in Go("GetDefaultView", nullDeref)
         /\ m_TextureSRV' \in IF nullDeref THEN {m_TextureSRV}
                              ELSE Outcome("TextureSRV")
  /\ UNCHANGED <<engineMayFail, m_pPSO, m_CubeVertexBuffer, m_CubeIndexBuffer,
                 m_VSConstants, m_SRB, m_WorldViewProjMatrix, locals, gpu,
                 frame, setupLog, lastCall, clock>>

\* line 303: m_SRB->GetVariableByName(...)->Set(m_TextureSRV); Tex is
\* released when LoadTexture returns
SetTexture ==
  /\ pc = "SetTexture"
  /\ \E var \in Outcome("g_Texture") :
       LET nullDeref == m_SRB = Null \/ var = Null
       IN  /\ pc' \in Go("SetTexture", nullDeref)
           /\ gpu' = IF nullDeref THEN gpu
                     ELSE [gpu EXCEPT !.srbTexture = m_TextureSRV]
  /\ Tex' = Null
  /\ UNCHANGED <<engineMayFail, handles, m_WorldViewProjMatrix, pVS, pPS,
                 frame, setupLog, lastCall, clock>>

\* ---------------------------------------------------------------- Update
\* the upload of the first matrix moved from Render into Update
Update_Uploads ==
  /\ pc = "Ready"
  /\ \E CurrTime \in Times, ElapsedTime \in Elapsed :
       /\ m_WorldViewProjMatrix' =
            UpdateMatrices(CurrTime, ElapsedTime, m_WorldViewProjMatrix)
       /\ currTime' = CurrTime
       /\ elapsedTime' = ElapsedTime
  /\ gpu' = [gpu EXCEPT !.cb = m_WorldViewProjMatrix'[1]]
  /\ updated' = TRUE
  /\ lastCall' = "Update"
  /\ prevFrame' = << >>
  /\ UNCHANGED <<pc, engineMayFail, handles, locals, cube, drawCalls,
                 writes, setupLog>>

\* lines 373-462: recomputes the matrices from CurrTime
Update ==
  /\ pc = "Ready"
  /\ \E CurrTime \in Times, ElapsedTime \in Elapsed :
       /\ m_WorldViewProjMatrix' =
            UpdateMatrices(CurrTime, ElapsedTime, m_WorldViewProjMatrix)
       /\ currTime' = CurrTime
       /\ elapsedTime' = ElapsedTime
  /\ updated' = TRUE
  /\ lastCall' = "Update"
  /\ prevFrame' = << >>
  /\ UNCHANGED <<pc, engineMayFail, handles, locals, gpu, cube, drawCalls,
                 writes, setupLog>>

\* ---------------------------------------------------------------- Render
\* lines 320-339: clear the targets, bind the buffers and the pipeline state
RenderBegin ==
  /\ pc = "Ready"
  /\ gpu' = [gpu EXCEPT !.boundVB = m_CubeVertexBuffer,
                        !.boundIB = m_CubeIndexBuffer,
                        !.boundPSO = m_pPSO]
  /\ cube' = 1
  /\ drawCalls' = << >>
  /\ writes' = 0
  /\ prevFrame' = IF lastCall = "Render" THEN drawCalls ELSE << >>
  /\ lastCall' = "Render"
  /\ pc' = "Map"
  /\ UNCHANGED <<engineMayFail, handles, m_WorldViewProjMatrix, locals,
                 setupLog, clock>>

\* line 344: MapHelper's constructor maps m_VSConstants with MAP_FLAG_DISCARD
\* (the previous contents are gone); mapping a null buffer is undefined
Map ==
  /\ pc = "Map"
  /\ pc' \in IF m_VSConstants = Null THEN {"Crashed", "Write"} ELSE {"Write"}
  /\ gpu' = IF m_VSConstants = Null THEN gpu
            ELSE [gpu EXCEPT !.cb = ZeroMatrix, !.cbMaps = @ + 1]
  /\ UNCHANGED <<engineMayFail, handles, m_WorldViewProjMatrix, locals,
                 frame, setupLog, lastCall, clock>>

\* line 345: *CBConstants = WorldViewProjMatrix; without a mapping the
\* pointer is null and the write is undefined
Write ==
  /\ pc = "Write"
  /\ pc' \in IF gpu.cbMaps = 0 THEN {"Crashed", "Commit"} ELSE {"Commit"}
  /\ gpu' = IF gpu.cbMaps = 0 THEN gpu
            ELSE [gpu EXCEPT !.cb = m_WorldViewProjMatrix[RenderList[cube]]]
  /\ writes' = IF gpu.cbMaps = 0 THEN writes ELSE writes + 1
  /\ UNCHANGED <<engineMayFail, handles, m_WorldViewProjMatrix, locals,
                 cube, drawCalls, prevFrame, setupLog, lastCall, clock>>

\* line 348
Commit ==
  /\ pc = "Commit"
  /\ gpu' = [gpu EXCEPT !.committedSRB = m_SRB]
  /\ pc' = "DrawIndexed"
  /\ UNCHANGED <<engineMayFail, handles, m_WorldViewProjMatrix, locals,
                 frame, setupLog, lastCall, clock>>

\* lines 351-355
DrawIndexed ==
  /\ pc = "DrawIndexed"
  /\ drawCalls' = Append(drawCalls,
                         [ NumIndices |-> NumIndices,
                           Constants  |-> gpu.cb,
                           Mapped     |-> gpu.cbMaps > 0,
                           Writes     |-> writes ])
  /\ writes' = 0
  /\ pc' = "Unmap"
  /\ UNCHANGED <<engineMayFail, handles, m_WorldViewProjMatrix, locals, gpu,
                 cube, prevFrame, setupLog, lastCall, clock>>

\* line 356: the lambda returns and MapHelper's destructor unmaps the
\* buffer; after the last DrawCube call Render returns (line 371)
Unmap ==
  /\ pc = "Unmap"
  /\ gpu' = [gpu EXCEPT !.cbMaps = IF @ > 0 THEN @ - 1 ELSE @]
  /\ cube' = IF cube = Len(RenderList) THEN 0 ELSE cube + 1
  /\ pc' = IF cube = Len(RenderList) THEN "Ready" ELSE "Map"
  /\ UNCHANGED <<engineMayFail, handles, m_WorldViewProjMatrix, locals,
                 drawCalls, writes, prevFrame, setupLog, lastCall, clock>>

\* ------------------------------------------------------- specifications
InitializeSteps ==
  \/ Initialize
  \/ CreateVS
  \/ CreateUniformBuffer
  \/ CreatePS
  \/ CreatePSO
  \/ SetConstants
  \/ CreateSRB
  \/ CreateVertexBuffer
  \/ CreateIndexBuffer
  \/ CreateTexture
  \/ GetDefaultView
  \/ SetTexture

RenderSteps ==
  \/ Map
  \/ Write
  \/ Commit
  \/ DrawIndexed
  \/ Unmap

\* Update and Render are public and may be called in any order once
\* Initialize has returned
Next ==
  \/ InitializeSteps
  \/ Update
  \/ RenderBegin
  \/ RenderSteps

\* the sample's engine calls all succeed
Spec == Init /\ [][Next]_vars

\* the engine's creation calls may return null
SpecFail == InitFail /\ [][Next]_vars

\* the frame loop of the host application: Update, then Render, every frame
FrameUpdate == lastCall # "Update" /\ Update

FrameRender == lastCall = "Update" /\ RenderBegin

FrameNext ==
  \/ InitializeSteps
  \/ FrameUpdate
  \/ FrameRender
  \/ RenderSteps

FrameSpec == Init /\ [][FrameNext]_vars

\* ================================================================ claims
\* the four setup functions in the order Initialize calls them (lines 311-314)
SetupSteps ==
  <<"CreatePipelineState", "CreateVertexBuffer", "CreateIndexBuffer", "LoadTexture">>

\* "Dibujar los doce cubos" (line 358)
NumCubes == 12

\* positions at which Initialize has returned and the process is alive
FramePcs == {"Ready", "Map", "Write", "Commit", "DrawIndexed", "Unmap"}

\* the matrices Update(T, 0) leaves when every member was default-constructed
FreshMatrices(T) == UpdateMatrices(T, 0, [i \in MatrixIds |-> ZeroMatrix])

\* ---------------------------------------------------------------- C1
\* C1: every Render issues exactly NumCubes (twelve) DrawIndexed calls: while
\* the k-th DrawCube is in progress k-1 (before its draw) or k (after it)
\* calls have been issued, and when Render has returned the frame holds
\* twelve of them, whatever the matrices are and whatever calls preceded.
C1_DrawCountPerFrame ==
  /\ pc \in {"Map", "Write", "Commit", "DrawIndexed"} => Len(drawCalls) = cube - 1
  /\ pc = "Unmap" => Len(drawCalls) = cube
  /\ cube <= NumCubes
  /\ (pc = "Ready" /\ lastCall = "Render") => Len(drawCalls) = NumCubes

C1_Witness ==
  /\ pc = "Ready" /\ lastCall = "Render" /\ updated /\ currTime = 2
  /\ Len(drawCalls) = NumCubes

\* ---------------------------------------------------------------- C2
\* C2: within Render the uniform buffer is written exactly once before each
\* DrawIndexed (once since the previous one), and the k-th DrawIndexed of a
\* frame is issued with the buffer holding m_WorldViewProjMatrix<k>, which
\* is the k-th object's matrix as the most recent Update computed it.
C2_OneWritePerDraw ==
  lastCall = "Render" =>
    \A k \in 1 .. Len(drawCalls) :
      /\ drawCalls[k].Writes = 1
      /\ drawCalls[k].Constants = m_WorldViewProjMatrix[k]
      /\ updated =>
           drawCalls[k].Constants = WorldViewProj(ModelTransformOf(k, currTime))

C2_Witness ==
  /\ lastCall = "Render" /\ updated /\ currTime = 1
  /\ Len(drawCalls) = NumCubes
  /\ drawCalls[6].Constants # drawCalls[7].Constants

\* ---------------------------------------------------------------- C3
\* C3 as stated: there are fourteen matrix members and after any Update
\* every one of them has been assigned and none holds its initial value.
C3_Original ==
  updated =>
    /\ Cardinality(MatrixIds) = 14
    /\ \A i \in MatrixIds : i \in UpdateWrites
    /\ \A i \in MatrixIds : m_WorldViewProjMatrix[i] # ZeroMatrix

\* C3 amended: fifteen matrix members are declared; every Update assigns
\* exactly the twelve members m_WorldViewProjMatrix1..12 their value for
\* CurrTime (none keeps its initial value), and the three other members
\* (the unnumbered one, 13 and 14) are never assigned and keep their
\* default-constructed value.
C3_TwelveOfFifteen ==
  /\ Cardinality(MatrixIds) = 15
  /\ updated =>
       \A i \in MatrixIds :
         IF i \in 1 .. 12
           THEN /\ m_WorldViewProjMatrix[i] = WorldViewProj(ModelTransformOf(i, currTime))
                /\ m_WorldViewProjMatrix[i] # ZeroMatrix
           ELSE m_WorldViewProjMatrix[i] = ZeroMatrix
  /\ ~updated => \A i \in MatrixIds : m_WorldViewProjMatrix[i] = ZeroMatrix

C3_Witness ==
  /\ updated /\ lastCall = "Update" /\ currTime = 3
  /\ m_WorldViewProjMatrix[12] # ZeroMatrix
  /\ m_WorldViewProjMatrix[13] = ZeroMatrix

\* ---------------------------------------------------------------- C4
\* C4: the matrices Update leaves depend on CurrTime alone: after any
\* Update(T, E), whatever E, whatever the members held before and whatever
\* calls preceded, the twelve matrices equal those of Update(T, 0) applied
\* to default-constructed members.
C4_FunctionOfTimeAlone ==
  updated =>
    \A i \in 1 .. 12 :
      m_WorldViewProjMatrix[i] = FreshMatrices(currTime)[i]

C4_Witness ==
  /\ updated /\ lastCall = "Update"
  /\ elapsedTime = 1 /\ currTime = 1
  /\ Len(drawCalls) = NumCubes
  /\ drawCalls[1].Constants # m_WorldViewProjMatrix[1]

\* ---------------------------------------------------------------- C5
\* the cubes whose model transform is Translation(offset) * Rotation(T)
\* (lines 394-397, 401)
OffsetCubes == {2, 3, 4, 5, 8}

\* the offset passed to float4x4::Translation for the cube c (lines 394-401)
CubeOffset(c) ==
  CASE c = 2 -> Point(3 * One, 0, 0)
    [] c = 3 -> Point(-3 * One, 0, 0)
    [] c = 4 -> Point(3 * One, -3 * One, 0)
    [] c = 5 -> Point(-3 * One, -4 * One, 0)
    [] c = 8 -> Point(0, 5 * One, 0)

\* the rotation the offset of the cube c is multiplied with (lines 378, 380)
CubeRotation(c, CurrTime) ==
  IF c = 8 THEN Cube8TiltedRotation(CurrTime) ELSE Cube1ModelTransform(CurrTime)

\* the local origin of a cube
Origin == Point(0, 0, 0)

\* C5 as stated: for the cubes 2, 3, 4, 5 and 8 the local origin maps to
\* exactly the fixed offset in world space, for every time T.
C5_Original ==
  updated =>
    \A c \in OffsetCubes :
      VecMul(Origin, ModelTransformOf(c, currTime)) = CubeOffset(c)

\* C5 amended: composition is applied left to right, consistently: in
\* Translation(offset) * Rotation(T) the offset placement is applied first
\* and the rotation second, so the local origin of the cubes 2, 3, 4, 5 and
\* 8 maps to offset * Rotation(T), the offset turned about the world origin;
\* and in Model * View * SrfPreTransform * Proj the model transform is
\* applied first, then the view, the pretransform and the projection.
C5_LeftToRight ==
  updated =>
    \A c \in OffsetCubes :
      LET world == VecMul(CubeOffset(c), CubeRotation(c, currTime))
      IN  /\ VecMul(Origin, ModelTransformOf(c, currTime)) = world
          /\ VecMul(Origin, m_WorldViewProjMatrix[c]) =
               VecMul(VecMul(VecMul(world, View), SrfPreTransform), Proj)

\* the centre of cube 2 has left its offset, the centre of cube 8 is where
\* the tilt about the X axis puts (0, 5, 0)
C5_Witness ==
  /\ updated /\ currTime = 1
  /\ VecMul(Origin, ModelTransformOf(2, currTime)) # CubeOffset(2)
  /\ VecMul(Origin, ModelTransformOf(2, currTime)) # VecMul(Origin, ModelTransformOf(2, 0))
  /\ VecMul(Origin, ModelTransformOf(8, currTime)) = VecMul(CubeOffset(8), RotationX(Tilt))

\* ---------------------------------------------------------------- C6
\* C6: Initialize enters the four setup functions exactly once each, in the
\* order CreatePipelineState, CreateVertexBuffer, CreateIndexBuffer,
\* LoadTexture; Update and Render execute no setup step; in the frame loop
\* a Render starts only right after an Update, and Update changes the
\* matrices only while no Render is in progress.
C6_SetupOnceThenFrames ==
  /\ [](/\ \E n \in 0 .. Len(SetupSteps) : setupLog = SubSeq(SetupSteps, 1, n)
        /\ pc \in FramePcs => setupLog = SetupSteps
        /\ lastCall = "Render" => updated)
  /\ [][/\ pc \in FramePcs => setupLog' = setupLog
        /\ (pc = "Ready" /\ pc' = "Map") => lastCall = "Update"
        /\ (m_WorldViewProjMatrix' # m_WorldViewProjMatrix \/ lastCall' = "Update")
             => (pc = "Ready" /\ pc' = "Ready")]_vars

C6_Witness ==
  /\ pc = "Ready" /\ lastCall = "Render" /\ updated
  /\ setupLog = SetupSteps
  /\ Len(drawCalls) = NumCubes

\* ---------------------------------------------------------------- C7
\* the three indices of the t-th triangle (t = 0 .. 11) of an index list
Triangle(ib, t) == <<ib[3 * t + 1], ib[3 * t + 2], ib[3 * t + 3]>>

\* C7: the vertex buffer holds 24 vertices and the index buffer 36 indices,
\* that is 12 triangles; every index is in 0..23; the three indices of a
\* triangle are pairwise distinct and lie in the same group of four
\* consecutive vertices; every draw call's NumIndices is the number of
\* indices in the index buffer.
C7_CubeGeometry ==
  /\ m_CubeVertexBuffer # Null => Len(gpu.vb) = 24
  /\ m_CubeIndexBuffer # Null =>
       /\ Len(gpu.ib) = 36
       /\ \A i \in 1 .. Len(gpu.ib) : gpu.ib[i] \in 0 .. 23
       /\ \A t \in 0 .. 11 :
            LET tri == Triangle(gpu.ib, t)
            IN  /\ tri[1] # tri[2] /\ tri[2] # tri[3] /\ tri[1] # tri[3]
                /\ tri[1] \div 4 = tri[2] \div 4
                /\ tri[2] \div 4 = tri[3] \div 4
  /\ pc \in FramePcs => (m_CubeVertexBuffer # Null /\ m_CubeIndexBuffer # Null)
  /\ \A k \in 1 .. Len(drawCalls) : drawCalls[k].NumIndices = Len(gpu.ib)

C7_Witness ==
  /\ m_CubeVertexBuffer # Null /\ m_CubeIndexBuffer # Null
  /\ Len(drawCalls) = NumCubes
  /\ drawCalls[NumCubes].NumIndices = 36

\* ---------------------------------------------------------------- C8
\* positions inside Initialize
InitPcs == {InitOrder[i] : i \in 1 .. Len(InitOrder)}

C9_UnmappedBeforeDraw ==
  /\ \A k \in 1 .. Len(drawCalls) : ~drawCalls[k].Mapped
  /\ pc \in {"Commit", "DrawIndexed"} => gpu.cbMaps = 0
  /\ gpu.cbMaps <= 1

\* ---------------------------------------------------------------- C10
\* C10: with every creation call succeeding, each resource exists before its
\* first use: the static variable 'Constants' is bound to an existing
\* m_VSConstants; m_SRB is created only after that binding, so it carries
\* it; 'g_Texture' is set only on an existing m_SRB; and once Initialize has
\* returned the pipeline state, vertex buffer, index buffer, uniform buffer,
\* texture view and SRB are all non-null and bound as intended, so every
\* handle Render binds has been created.
C10_CreatedBeforeUse ==
  /\ gpu.psoConstants # Null => (m_pPSO # Null /\ gpu.psoConstants = m_VSConstants)
  /\ m_SRB # Null => (gpu.psoConstants # Null /\ gpu.srbConstants = m_VSConstants)
  /\ m_SRB # Null => m_VSConstants # Null
  /\ gpu.srbTexture # Null => (m_SRB # Null /\ gpu.srbTexture = m_TextureSRV)
  /\ pc \in FramePcs =>
       /\ m_pPSO # Null /\ m_CubeVertexBuffer # Null /\ m_CubeIndexBuffer # Null
       /\ m_VSConstants # Null /\ m_TextureSRV # Null /\ m_SRB # Null
       /\ gpu.psoConstants # Null /\ gpu.srbConstants # Null
       /\ gpu.srbTexture # Null
  /\ pc \in FramePcs \ {"Ready"} =>
       /\ gpu.boundVB # Null /\ gpu.boundIB # Null /\ gpu.boundPSO # Null
  /\ Len(drawCalls) > 0 => gpu.committedSRB # Null

C10_Witness ==
  /\ pc = "Ready" /\ lastCall = "None"
  /\ m_pPSO # Null /\ m_SRB # Null /\ m_TextureSRV # Null
  /\ gpu.srbConstants = "VSConstants" /\ gpu.srbTexture = "TextureSRV"

\* ---------------------------------------------------------------- C11
\* the members Render passes to DrawCube
RenderReads == {RenderList[k] : k \in 1 .. Len(RenderList)}

\* C11: the matrices Render reads are exactly the matrices Update writes:
\* every member passed to a draw call is assigned by every Update and every
\* member Update assigns is drawn; so in a Render that follows at least one
\* Update, no DrawIndexed is issued with a matrix that still holds its
\* default-constructed value.
C11_ReadsAreWrites ==
  /\ RenderReads = UpdateWrites
  /\ (updated /\ lastCall = "Render") =>
       \A k \in 1 .. Len(drawCalls) :
         /\ drawCalls[k].Constants # ZeroMatrix
         /\ m_WorldViewProjMatrix[RenderList[k]] # ZeroMatrix
  /\ (pc = "Commit" /\ updated) => gpu.cb # ZeroMatrix

C11_Witness ==
  /\ updated /\ lastCall = "Render" /\ pc = "Ready"
  /\ Len(drawCalls) = NumCubes
  /\ drawCalls[NumCubes].Constants = m_WorldViewProjMatrix[12]
  /\ m_WorldViewProjMatrix[13] = ZeroMatrix

\* ---------------------------------------------------------------- C12
\* the matrices a sequence of DrawIndexed calls was issued with
Submitted(calls) == [k \in 1 .. Len(calls) |-> calls[k].Constants]

\* C12: Render and Update have disjoint effects: no step of Render changes
\* a world-view-projection matrix or a resource handle; Update issues no
\* draw call and changes neither the uniform buffer (nor any other engine
\* object) nor a resource handle; and a Render called right after a Render,
\* with no Update between them, submits the same matrices in the same order
\* as its predecessor.
C12_DisjointEffects ==
  /\ [](/\ (lastCall = "Render" /\ prevFrame # << >>) =>
             /\ Len(prevFrame) = NumCubes
             /\ Submitted(drawCalls) = SubSeq(Submitted(prevFrame), 1, Len(drawCalls))
        /\ (lastCall = "Render" /\ pc = "Ready" /\ prevFrame # << >>) =>
             Submitted(drawCalls) = Submitted(prevFrame))
  /\ [][/\ (pc \in FramePcs \ {"Ready"} \/ pc' \in FramePcs \ {"Ready"}) =>
             /\ m_WorldViewProjMatrix' = m_WorldViewProjMatrix
             /\ handles' = handles
        /\ (pc = "Ready" /\ pc' = "Ready") =>
             /\ drawCalls' = drawCalls
             /\ gpu' = gpu
             /\ handles' = handles]_vars

\* two Renders in a row after an Update, both complete
C12_Witness ==
  /\ pc = "Ready" /\ lastCall = "Render" /\ updated /\ currTime = 1
  /\ Len(prevFrame) = NumCubes
  /\ Len(drawCalls) = NumCubes
  /\ Submitted(drawCalls)[6] # Submitted(drawCalls)[7]

====
